---- MODULE Spec2Model ----
(***************************************************************************)
(* Model of the sensors data pipeline: the two relational stores and the   *)
(* insert-or-ignore writers of DatabaseRepository, the DatabaseManager     *)
(* engine lifecycle, the row validators and the paginated reader of        *)
(* SensorDataService, and the orchestration of run_worker / main.          *)
(*                                                                         *)
(* Time is counted in whole hours.  A timezone-aware timestamp is a record *)
(* [wall, off]: the wall-clock hour and its UTC offset; the stores hold    *)
(* the instant wall - off (TIMESTAMP(timezone=True)).                      *)
(***************************************************************************)
EXTENDS Integers, Sequences, FiniteSets, TLC

\* ------------------------------------------------------------------------
\* Bounds and data domains
\* ------------------------------------------------------------------------
MaxBatch == 2

NONE == "None"

UUIDs == {"A", "B"}
Names == {"temp1", "temp1dup"}
Values == {5, 7}
AwareTimestamps == { [wall |-> 10, off |-> 1], [wall |-> 10, off |-> 0] }

SensorRecords == [sensor_uuid : UUIDs, sensor_name : Names]
MeasurementRecords ==
    [timestamp : AwareTimestamps, sensor_uuid : UUIDs, sensor_value : Values]

SeqsUpTo(S, n) == UNION { [1..k -> S] : k \in 0..n }

Range(s) == { s[i] : i \in DOMAIN s }

VARIABLES
    sensor_info,          \* rows of table sensor_info (main database)
    sensor_measurement,   \* rows of table sensor_measurement (Timescale database)
    db_engine,            \* DatabaseManager._async_database_engine
    ts_engine,            \* DatabaseManager._async_timescale_database_engine
    db_factory,           \* DatabaseManager._async_database_session_factory
    ts_factory,           \* DatabaseManager._async_timescale_database_session_factory
    has_instance,         \* hasattr(DatabaseManager, "instance")
    minio_client,         \* MinioManager.minio_client
    last_call,            \* what the last repository / manager call did
    first_name,           \* history: name first submitted for each sensor_uuid
    first_value,          \* history: << value >> first submitted for each (sensor_uuid, instant)
    q_pc,                 \* get_sensor_readings: "idle", "loop" (suspended in the while loop), "done"
    q_args,               \* get_sensor_readings: the arguments of the call
    q_sensor,             \* get_sensor_readings: sensor.sensor_uuid
    q_offset,             \* get_sensor_readings: offset
    q_total,              \* get_sensor_readings: total_yielded
    q_yielded,            \* the batches the generator has yielded, in order
    q_fetches,            \* the fetches issued against the measurement store, in order
    q_error,              \* the exception get_sensor_readings raised, if any
    q_log,                \* the messages get_sensor_readings logged
    v_last,               \* the last validator call: its chunk and what it returned or raised
    m_pc,                 \* main: the statement main() is at
    m_chunks,             \* main: the chunks of mapping/mapping.csv not yet read
    m_error,              \* main: the exception in flight, then the one main() raised
    m_logged,             \* main: the exceptions logged by the except clause
    m_faulted,            \* main: did a blob-store or store call fail in this run
    m_trace,              \* main: the phases and the cleanup, in the order they happened
    i_pc,                 \* get_and_store_sensors_measurements: "idle", "object", "chunk", "done"
    i_objects,            \* the listed blob descriptors not yet iterated
    i_chunks,             \* the chunks of the current file not yet iterated
    i_chunk_size,         \* SensorDataService.chunk_size
    i_trace,              \* the warnings logged and the get_object calls made, in order
    i_ingested,           \* history: the chunks taken from the files so far, in order
    i_error               \* the exception get_and_store_sensors_measurements raised, if any

queryVars == << q_pc, q_args, q_sensor, q_offset, q_total, q_yielded, q_fetches,
                q_error, q_log >>

mainVars == << m_pc, m_chunks, m_error, m_logged, m_faulted, m_trace >>

ingestVars == << i_pc, i_objects, i_chunks, i_chunk_size, i_trace, i_ingested,
                 i_error >>

vars == << sensor_info, sensor_measurement, db_engine, ts_engine, db_factory,
           ts_factory, has_instance, minio_client, last_call, first_name,
           first_value, queryVars, v_last, mainVars, ingestVars >>

storeVars == << sensor_info, sensor_measurement >>
managerVars == << db_engine, ts_engine, db_factory, ts_factory, has_instance >>
clientVars == << managerVars, minio_client >>
historyVars == << first_name, first_value >>

\* ------------------------------------------------------------------------
\* The stores
\* ------------------------------------------------------------------------
\* The instant a timezone-aware timestamp denotes, as TIMESTAMP(timezone=True)
\* stores and compares it.
Instant(ts) == ts.wall - ts.off

\* The timestamps the measurement files carry, once timezone-aware: 01:00+01:00,
\* 00:00+00:00 and 02:00+02:00 are one instant.
IngestTimestamps ==
    { [wall |-> 1, off |-> 1], [wall |-> 0, off |-> 0], [wall |-> 2, off |-> 2] }

Instants == { Instant(ts) : ts \in AwareTimestamps \cup IngestTimestamps }

MeasurementKeys == UUIDs \X Instants

\* The row the Timescale store persists for a validated record.
MeasurementRow(r) ==
    [timestamp |-> Instant(r.timestamp), sensor_uuid |-> r.sensor_uuid,
     sensor_value |-> r.sensor_value]

\* INSERT ... ON CONFLICT (sensor_uuid) DO NOTHING, row by row in statement order.
RECURSIVE InsertSensorInfo(_, _)
InsertSensorInfo(table, records) ==
    IF records = << >> THEN table
    ELSE LET r == Head(records)
             conflict == \E x \in table : x.sensor_uuid = r.sensor_uuid
         IN  InsertSensorInfo(IF conflict THEN table ELSE table \cup {r},
                              Tail(records))

\* Mutant: the conflict target is the sensor alone.
RECURSIVE InsertSensorMeasurementBySensor(_, _)
InsertSensorMeasurementBySensor(table, records) ==
    IF records = << >> THEN table
    ELSE LET r == MeasurementRow(Head(records))
             conflict == \E x \in table : x.sensor_uuid = r.sensor_uuid
         IN  InsertSensorMeasurementBySensor(
                 IF conflict THEN table ELSE table \cup {r}, Tail(records))

\* Mutant: the conflicting row overwrites the stored one (DO UPDATE).
RECURSIVE InsertSensorMeasurementOverwrite(_, _)
InsertSensorMeasurementOverwrite(table, records) ==
    IF records = << >> THEN table
    ELSE LET r == MeasurementRow(Head(records))
             kept == {x \in table : ~(/\ x.sensor_uuid = r.sensor_uuid
                                      /\ x.timestamp = r.timestamp)}
         IN  InsertSensorMeasurementOverwrite(kept \cup {r}, Tail(records))

\* INSERT ... ON CONFLICT (sensor_uuid, timestamp) DO NOTHING.
RECURSIVE InsertSensorMeasurement(_, _)
InsertSensorMeasurement(table, records) ==
    IF records = << >> THEN table
    ELSE LET r == MeasurementRow(Head(records))
             conflict == \E x \in table : /\ x.sensor_uuid = r.sensor_uuid
                                          /\ x.timestamp = r.timestamp
         IN  InsertSensorMeasurement(IF conflict THEN table ELSE table \cup {r},
                                     Tail(records))

\* ------------------------------------------------------------------------
\* DatabaseManager sessions
\* ------------------------------------------------------------------------
Faults == {"none", "execute", "commit"}

\* get_db_session yields a session unless the engine or the factory is None.
get_db_session ==
    IF db_engine = NONE \/ db_factory = NONE THEN "RuntimeError" ELSE "session"

\* get_timescale_db_session, the same test on the Timescale pair.
get_timescale_db_session ==
    IF ts_engine = NONE \/ ts_factory = NONE THEN "RuntimeError" ELSE "session"

NoCall ==
    [op |-> NONE, empty |-> FALSE, fault |-> "none", sessions |-> 0,
     statements |-> 0, commits |-> 0, rollbacks |-> 0, ignored |-> FALSE,
     created |-> {}, disposed |-> {}, result |-> TRUE, error |-> NONE,
     argument |-> NONE, returned |-> NONE]

\* ------------------------------------------------------------------------
\* DatabaseRepository writers
\* ------------------------------------------------------------------------
\* Mutant: the rows of the failed transaction stay.
rollback_keeps_pending(table, pending) == pending

\* except Exception: await session.rollback(); raise.  The table is as it was
\* before the transaction, whatever the transaction had pending.
rollback(table, pending) == table

\* One call of store_sensors_data: the table it leaves and the trace of the
\* call.  insert(...).values([]) has no column values, so the statement is
\* INSERT ... DEFAULT VALUES, which the NOT NULL primary key rejects.
store_sensors_data_result(table, sensor_records, fault) ==
    LET call == [NoCall EXCEPT !.op = "store_sensors_data",
                               !.empty = (sensor_records = << >>),
                               !.fault = fault]
    IN
    IF get_db_session = "RuntimeError"
    THEN [table |-> table, call |-> [call EXCEPT !.error = "RuntimeError"]]
    ELSE IF sensor_records = << >>
    THEN [table |-> table,
          call |-> [call EXCEPT !.sessions = 1, !.statements = 1,
                                !.rollbacks = 1, !.error = "IntegrityError"]]
    ELSE IF fault = "execute"
    THEN [table |-> table,
          call |-> [call EXCEPT !.sessions = 1, !.statements = 1,
                                !.rollbacks = 1, !.error = "DBAPIError"]]
    ELSE IF fault = "commit"
    THEN [table |-> rollback(table, InsertSensorInfo(table, sensor_records)),
          call |-> [call EXCEPT !.sessions = 1, !.statements = 1,
                                !.rollbacks = 1, !.error = "DBAPIError"]]
    ELSE LET new == InsertSensorInfo(table, sensor_records)
         IN  [table |-> new,
              call |-> [call EXCEPT
                          !.sessions = 1, !.statements = 1, !.commits = 1,
                          !.ignored = (Cardinality(new) - Cardinality(table)
                                           < Len(sensor_records))]]

\* One call of store_sensors_measurements.  The Timescale session commits
\* once more when the with-block is left.
store_sensors_measurements_result(table, sensors_measurements, fault) ==
    LET call == [NoCall EXCEPT !.op = "store_sensors_measurements",
                               !.empty = (sensors_measurements = << >>),
                               !.fault = fault]
    IN
    IF get_timescale_db_session = "RuntimeError"
    THEN [table |-> table, call |-> [call EXCEPT !.error = "RuntimeError"]]
    ELSE IF sensors_measurements = << >>
    THEN [table |-> table,
          call |-> [call EXCEPT !.sessions = 1, !.statements = 1,
                                !.rollbacks = 1, !.error = "IntegrityError"]]
    ELSE IF fault = "execute"
    THEN [table |-> table,
          call |-> [call EXCEPT !.sessions = 1, !.statements = 1,
                                !.rollbacks = 1, !.error = "DBAPIError"]]
    ELSE IF fault = "commit"
    THEN [table |-> rollback(table,
                        InsertSensorMeasurement(table, sensors_measurements)),
          call |-> [call EXCEPT !.sessions = 1, !.statements = 1,
                                !.rollbacks = 1, !.error = "DBAPIError"]]
    ELSE LET new == InsertSensorMeasurement(table, sensors_measurements)
         IN  [table |-> new,
              call |-> [call EXCEPT
                          !.sessions = 1, !.statements = 1, !.commits = 2,
                          !.ignored = (Cardinality(new) - Cardinality(table)
                                           < Len(sensors_measurements))]]

\* History: the attribute submitted first under each key, over the calls that
\* completed.
FirstIndex(records, P(_)) ==
    CHOOSE i \in DOMAIN records :
        P(records[i]) /\ \A j \in DOMAIN records : P(records[j]) => i <= j

RecordFirstNames(old, records) ==
    [u \in UUIDs |->
        IF old[u] # NONE THEN old[u]
        ELSE LET P(r) == r.sensor_uuid = u
             IN  IF \E i \in DOMAIN records : P(records[i])
                 THEN records[FirstIndex(records, P)].sensor_name
                 ELSE NONE]

RecordFirstValues(old, records) ==
    [k \in MeasurementKeys |->
        IF old[k] # << >> THEN old[k]
        ELSE LET P(r) == r.sensor_uuid = k[1] /\ Instant(r.timestamp) = k[2]
             IN  IF \E i \in DOMAIN records : P(records[i])
                 THEN << records[FirstIndex(records, P)].sensor_value >>
                 ELSE << >>]

\* A failing call leaves the same state whatever it was given, so the failing
\* calls are enumerated on the short batches only.
BatchBound(fault) == IF fault = "none" THEN MaxBatch ELSE 1

store_sensors_data ==
    \E fault \in Faults :
    \E sensor_records \in SeqsUpTo(SensorRecords, BatchBound(fault)) :
        LET res == store_sensors_data_result(sensor_info, sensor_records, fault)
        IN  /\ sensor_info' = res.table
            /\ last_call' = res.call
            /\ first_name' = IF res.call.error = NONE
                             THEN RecordFirstNames(first_name, sensor_records)
                             ELSE first_name
            /\ UNCHANGED << sensor_measurement, first_value, clientVars, queryVars,
                           v_last, mainVars, ingestVars >>

store_sensors_measurements ==
    \E fault \in Faults :
    \E sensors_measurements \in SeqsUpTo(MeasurementRecords, BatchBound(fault)) :
        LET res == store_sensors_measurements_result(
                       sensor_measurement, sensors_measurements, fault)
        IN  /\ sensor_measurement' = res.table
            /\ last_call' = res.call
            /\ first_value' = IF res.call.error = NONE
                              THEN RecordFirstValues(first_value, sensors_measurements)
                              ELSE first_value
            /\ UNCHANGED << sensor_info, first_name, clientVars, queryVars,
                           v_last, mainVars, ingestVars >>

\* ------------------------------------------------------------------------
\* Specification of the writers: a constructed DatabaseManager, empty stores,
\* any sequence of writer calls.
\* ------------------------------------------------------------------------
InitStores ==
    /\ sensor_info = {}
    /\ sensor_measurement = {}
    /\ first_name = [u \in UUIDs |-> NONE]
    /\ first_value = [k \in MeasurementKeys |-> << >>]

\* The class state after DatabaseManager(ASYNC_DB_URI, ASYNC_TIMESCALE_DB_URI)
\* and get_minio_client(), as create_service leaves it.
InitManagerConstructed ==
    /\ db_engine = "postgresql+asyncpg://main"
    /\ ts_engine = "postgresql+asyncpg://timescale"
    /\ db_factory = "postgresql+asyncpg://main"
    /\ ts_factory = "postgresql+asyncpg://timescale"
    /\ has_instance = TRUE
    /\ minio_client = "minio:9000"

NoArgs ==
    [sensor_name |-> NONE, start_timestamp |-> 0, end_timestamp |-> 0,
     page_number |-> << >>, page_size |-> << >>]

InitQueryIdle ==
    /\ q_pc = "idle"
    /\ q_args = NoArgs
    /\ q_sensor = NONE
    /\ q_offset = 0
    /\ q_total = 0
    /\ q_yielded = << >>
    /\ q_fetches = << >>
    /\ q_error = NONE
    /\ q_log = {}

NoValidation == [op |-> NONE, chunk |-> << >>, error |-> NONE, records |-> << >>]

InitMainIdle ==
    /\ m_pc = "idle"
    /\ m_chunks = << >>
    /\ m_error = NONE
    /\ m_logged = {}
    /\ m_faulted = FALSE
    /\ m_trace = << >>

\* SensorDataService.__init__: chunk_size defaults to 5000.
DefaultChunkSize == 5000

InitIngestIdle ==
    /\ i_pc = "idle"
    /\ i_objects = << >>
    /\ i_chunks = << >>
    /\ i_chunk_size = DefaultChunkSize
    /\ i_trace = << >>
    /\ i_ingested = << >>
    /\ i_error = NONE

Init ==
    /\ InitStores
    /\ InitManagerConstructed
    /\ InitQueryIdle
    /\ InitMainIdle
    /\ InitIngestIdle
    /\ v_last = NoValidation
    /\ last_call = NoCall

Next == store_sensors_data \/ store_sensors_measurements

Spec == Init /\ [][Next]_vars

\* C1: each store holds exactly one row per natural key that was ever
\* submitted, that row carries the attributes of the first submission (also
\* within one batch), and a non-empty submission that meets no store failure
\* raises no error.
InsertOrIgnoreFirstWriteWins ==
    /\ \A u \in UUIDs :
          Cardinality({x \in sensor_info : x.sensor_uuid = u})
              = IF first_name[u] = NONE THEN 0 ELSE 1
    /\ \A x \in sensor_info : x.sensor_name = first_name[x.sensor_uuid]
    /\ \A k \in MeasurementKeys :
          Cardinality({x \in sensor_measurement :
                          x.sensor_uuid = k[1] /\ x.timestamp = k[2]})
              = Len(first_value[k])
    /\ \A x \in sensor_measurement :
          first_value[<< x.sensor_uuid, x.timestamp >>] = << x.sensor_value >>
    /\ (last_call.op \in {"store_sensors_data", "store_sensors_measurements"}
          /\ ~last_call.empty /\ last_call.fault = "none")
          => last_call.error = NONE

\* Witness of C1: a measurement batch met a key conflict, was committed
\* without error, and both stores hold rows.
WitnessConflictIgnored ==
    /\ last_call.op = "store_sensors_measurements"
    /\ last_call.ignored
    /\ last_call.error = NONE
    /\ Cardinality(sensor_measurement) >= 2
    /\ sensor_info # {}

\* C10 (as claimed): a writer called with an empty sequence opens no session,
\* executes no statement and commits nothing.
EmptyBatchIsNoOp ==
    (last_call.op \in {"store_sensors_data", "store_sensors_measurements"}
        /\ last_call.empty)
        => /\ last_call.sessions = 0
           /\ last_call.statements = 0
           /\ last_call.commits = 0

\* ------------------------------------------------------------------------
\* Reader / paginator: DatabaseRepository reads and get_sensor_readings
\* ------------------------------------------------------------------------
MaxTime == 3
MaxPage == 2
MaxPageSize == 2
Horizon == 1001
LargeSizes == {25, 501, Horizon}

default_batch_size == 500

Min(a, b) == IF a <= b THEN a ELSE b

\* An optional integer is << >> (None) or << n >>.
Optional(S) == {<< >>} \cup { << n >> : n \in S }

\* Python truth value of an optional integer: None and 0 are false.
Truthy(opt) == opt # << >> /\ opt[1] # 0

RECURSIVE Flatten(_)
Flatten(batches) ==
    IF batches = << >> THEN << >> ELSE Head(batches) \o Flatten(Tail(batches))

\* Mutant: scalar_one(), which raises when no row matches.
get_sensor_by_sensor_name_strict(sensor_name) ==
    LET matches == {x \in sensor_info : x.sensor_name = sensor_name}
    IN  IF Cardinality(matches) = 1
        THEN [error |-> NONE, sensor |-> (CHOOSE x \in matches : TRUE).sensor_uuid]
        ELSE [error |-> "NoResultFound", sensor |-> NONE]

\* Mutant: scalars().first(), which takes one of several matching rows.
get_sensor_by_sensor_name_first(sensor_name) ==
    LET matches == {x \in sensor_info : x.sensor_name = sensor_name}
    IN  IF matches = {} THEN [error |-> NONE, sensor |-> NONE]
        ELSE [error |-> NONE,
              sensor |-> (CHOOSE x \in matches : TRUE).sensor_uuid]

\* select(SensorInfo).where(sensor_name == ...) then scalar_one_or_none():
\* None for no row, the row for one, MultipleResultsFound for more.
get_sensor_by_sensor_name(sensor_name) ==
    IF get_db_session = "RuntimeError"
    THEN [error |-> "RuntimeError", sensor |-> NONE]
    ELSE LET matches == {x \in sensor_info : x.sensor_name = sensor_name}
         IN  IF matches = {} THEN [error |-> NONE, sensor |-> NONE]
             ELSE IF Cardinality(matches) = 1
             THEN [error |-> NONE,
                   sensor |-> (CHOOSE x \in matches : TRUE).sensor_uuid]
             ELSE [error |-> "MultipleResultsFound", sensor |-> NONE]

\* Mutant: the end bound is exclusive.
InTimeRangeEndExclusive(x, sensor_uuid, start_timestamp, end_timestamp) ==
    /\ x.sensor_uuid = sensor_uuid
    /\ x.timestamp >= start_timestamp
    /\ x.timestamp < end_timestamp

\* The WHERE clause of the range query: both bounds inclusive.
InTimeRange(x, sensor_uuid, start_timestamp, end_timestamp) ==
    /\ x.sensor_uuid = sensor_uuid
    /\ x.timestamp >= start_timestamp
    /\ x.timestamp <= end_timestamp

\* SELECT sensor_value, timestamp ... WHERE ... ORDER BY timestamp LIMIT
\* batch_size OFFSET offset.  uq_sensor_timestamp leaves at most one row of a
\* sensor per timestamp, so the order is total.
get_sensor_measurements_by_sensor_uuid_and_time_range(sensor_uuid, start_timestamp, end_timestamp, offset, batch_size) ==
    LET matching == {x \in sensor_measurement :
                        InTimeRange(x, sensor_uuid, start_timestamp, end_timestamp)}
        stamps == {x.timestamp : x \in matching}
        values == {x.sensor_value : x \in matching}
        span == [i \in 1..(end_timestamp - start_timestamp + 1) |->
                    start_timestamp + i - 1]
        ordered == SelectSeq(span, LAMBDA t : t \in stamps)
        page == SubSeq(ordered, offset + 1, Min(offset + batch_size, Len(ordered)))
        RowAt(t) == CHOOSE x \in [timestamp : {t}, sensor_uuid : {sensor_uuid},
                                  sensor_value : values] : x \in matching
    IN  [i \in 1..Len(page) |->
            [sensor_value |-> RowAt(page[i]).sensor_value, timestamp |-> page[i]]]

\* offset = (page_number - 1) * page_size if page_number and page_size else 0
initial_offset(page_number, page_size) ==
    IF Truthy(page_number) /\ Truthy(page_size)
    THEN (page_number[1] - 1) * page_size[1]
    ELSE 0

\* Mutant: every fetch asks for the full internal batch.
current_batch_size_unlimited(page_size, total_yielded) == default_batch_size

\* The limit of one fetch: min(default_batch_size, remaining) under a page
\* size, default_batch_size otherwise.
current_batch_size(page_size, total_yielded) ==
    IF page_size # << >>
    THEN Min(default_batch_size, page_size[1] - total_yielded)
    ELSE default_batch_size

\* Mutant: the message is logged for every fetch without rows.
logs_no_readings_always(total_yielded) == TRUE

\* if not total_yielded: log that no readings were found.
logs_no_readings(total_yielded) == total_yielded = 0

QueryArgs ==
    [sensor_name : Names,
     start_timestamp : {1, 2},
     end_timestamp : {1, MaxTime, Horizon},
     page_number : Optional(0..MaxPage),
     page_size : Optional(0..MaxPageSize \cup {10, 501})]

\* Lines 232-242: resolve the sensor name, return when it is unknown, else set
\* total_yielded and offset and enter the loop.
get_sensor_readings_resolve ==
    /\ q_pc = "idle"
    /\ \E args \in QueryArgs :
         LET found == get_sensor_by_sensor_name(args.sensor_name)
         IN  /\ q_args' = args
             /\ IF found.error # NONE
                THEN /\ q_error' = found.error
                     /\ q_pc' = "done"
                     /\ UNCHANGED << q_sensor, q_offset, q_total, q_log >>
                ELSE IF found.sensor = NONE
                THEN /\ q_log' = q_log \cup {"Sensor is not found."}
                     /\ q_pc' = "done"
                     /\ UNCHANGED << q_sensor, q_offset, q_total, q_error >>
                ELSE /\ q_sensor' = found.sensor
                     /\ q_total' = 0
                     /\ q_offset' = initial_offset(args.page_number, args.page_size)
                     /\ q_pc' = "loop"
                     /\ UNCHANGED << q_error, q_log >>
    /\ UNCHANGED << q_yielded, q_fetches, storeVars, clientVars, historyVars,
                    last_call, v_last, mainVars, ingestVars >>

\* Lines 244-275: one iteration of the while loop, up to the yield or the
\* break.
get_sensor_readings_loop ==
    /\ q_pc = "loop"
    /\ IF q_args.page_size # << >> /\ q_args.page_size[1] - q_total <= 0
       THEN /\ q_pc' = "done"
            /\ UNCHANGED << q_offset, q_total, q_yielded, q_fetches, q_error, q_log >>
       ELSE IF get_timescale_db_session = "RuntimeError"
       THEN /\ q_pc' = "done"
            /\ q_error' = "RuntimeError"
            /\ UNCHANGED << q_offset, q_total, q_yielded, q_fetches, q_log >>
       ELSE LET batch_size == current_batch_size(q_args.page_size, q_total)
                sensor_measurements ==
                    get_sensor_measurements_by_sensor_uuid_and_time_range(
                        q_sensor, q_args.start_timestamp, q_args.end_timestamp,
                        q_offset, batch_size)
                num_rows == Len(sensor_measurements)
            IN  /\ q_fetches' = Append(q_fetches,
                       [offset |-> q_offset, batch_size |-> batch_size,
                        returned |-> num_rows])
                /\ IF sensor_measurements = << >>
                   THEN /\ q_pc' = "done"
                        /\ q_log' = IF logs_no_readings(q_total)
                                    THEN q_log \cup {"No sensor readings found."}
                                    ELSE q_log
                        /\ UNCHANGED << q_offset, q_total, q_yielded, q_error >>
                   ELSE /\ q_yielded' = Append(q_yielded, sensor_measurements)
                        /\ q_offset' = q_offset + num_rows
                        /\ q_total' = q_total + num_rows
                        /\ UNCHANGED << q_pc, q_error, q_log >>
    /\ UNCHANGED << q_args, q_sensor, storeVars, clientVars, historyVars,
                    last_call, v_last, mainVars, ingestVars >>

\* The stores the reader is run against: what the writers can have left.
ValueAt(t) == IF t % 2 = 0 THEN 5 ELSE 7

MeasurementsAt(u, T) ==
    { [timestamp |-> t, sensor_uuid |-> u, sensor_value |-> ValueAt(t)] : t \in T }

QueryInfoStores ==
    { {},
      { [sensor_uuid |-> "A", sensor_name |-> "temp1"] },
      { [sensor_uuid |-> "A", sensor_name |-> "temp1"],
        [sensor_uuid |-> "B", sensor_name |-> "temp1dup"] },
      { [sensor_uuid |-> "A", sensor_name |-> "temp1"],
        [sensor_uuid |-> "B", sensor_name |-> "temp1"] } }

QueryMeasurementStores ==
    { MeasurementsAt("A", TA) \cup MeasurementsAt("B", TB) :
          TA \in SUBSET (1..MaxTime) \cup { 1..n : n \in LargeSizes },
          TB \in SUBSET {2} }

InitQuery ==
    /\ sensor_info \in QueryInfoStores
    /\ sensor_measurement \in QueryMeasurementStores
    /\ first_name = [u \in UUIDs |-> NONE]
    /\ first_value = [k \in MeasurementKeys |-> << >>]
    /\ InitManagerConstructed
    /\ InitQueryIdle
    /\ InitMainIdle
    /\ InitIngestIdle
    /\ v_last = NoValidation
    /\ last_call = NoCall

NextQuery == get_sensor_readings_resolve \/ get_sensor_readings_loop

SpecQuery == InitQuery /\ [][NextQuery]_vars

\* The rows of the resolved sensor inside the queried range, as the reader
\* yields them.
MatchingReadings ==
    { [sensor_value |-> x.sensor_value, timestamp |-> x.timestamp] :
        x \in {y \in sensor_measurement :
                  /\ y.sensor_uuid = q_sensor
                  /\ q_args.start_timestamp <= y.timestamp
                  /\ y.timestamp <= q_args.end_timestamp} }

Ascending(rows) ==
    \A i \in 1..(Len(rows) - 1) : rows[i].timestamp < rows[i + 1].timestamp

\* C2: with a page size, the rows yielded by one call never exceed it.
NeverMoreThanPageSize ==
    q_args.page_size # << >> => Len(Flatten(q_yielded)) <= q_args.page_size[1]

\* Witness of C2: a call with a page size above the internal batch size has
\* yielded over several fetches and stopped at the quota while rows remain.
WitnessPageQuotaReached ==
    /\ q_pc = "done"
    /\ q_args.page_size = << 501 >>
    /\ Len(q_yielded) = 2
    /\ Len(Flatten(q_yielded)) = 501
    /\ Cardinality(MatchingReadings) > q_offset

\* out is exactly the matching rows of rank lo..hi (ranks count from 1 in
\* ascending timestamp order), each once, in ascending timestamp order.
IsRankWindow(out, lo, hi) ==
    LET matching == MatchingReadings
        first == IF lo < 1 THEN 1 ELSE lo
        last == Min(hi, Cardinality(matching))
        count == IF last < first THEN 0 ELSE last - first + 1
    IN  /\ Len(out) = count
        /\ Ascending(out)
        /\ Range(out) \subseteq matching
        /\ count > 0 =>
             /\ Cardinality({y \in matching :
                                y.timestamp < out[1].timestamp}) = first - 1
             /\ Cardinality({y \in matching :
                                /\ out[1].timestamp <= y.timestamp
                                /\ y.timestamp <= out[count].timestamp}) = count

QueryResolved == q_sensor # NONE /\ q_error = NONE

\* C3: without a page size, a call for a known sensor yields every
\* measurement of the sensor with start <= timestamp <= end exactly once, in
\* ascending timestamp order, and terminates: every iteration of the loop
\* either ends the call or yields at least one more row, and the rows yielded
\* never outnumber the matching rows.
YieldsAllInRangeAscending ==
    /\ [](( /\ q_pc = "done"
            /\ QueryResolved
            /\ q_args.page_size = << >> )
          => IsRankWindow(Flatten(q_yielded), 1, Cardinality(MatchingReadings)))
    /\ []((q_pc = "loop" /\ q_args.page_size = << >>)
            => q_total <= Cardinality(MatchingReadings))
    /\ [][(q_pc = "loop" /\ q_args.page_size = << >>)
            => (q_pc' = "done" \/ q_total' > q_total)]_vars

\* Witness of C3: an unpaged call has finished after three fetches with data,
\* on a range whose two end points both carry a measurement.
WitnessAllRowsYielded ==
    /\ q_pc = "done"
    /\ QueryResolved
    /\ q_args.page_size = << >>
    /\ Len(q_yielded) = 3
    /\ Len(Flatten(q_yielded)) = Horizon - q_args.start_timestamp + 1
    /\ \E x \in MatchingReadings : x.timestamp = q_args.start_timestamp
    /\ \E x \in MatchingReadings : x.timestamp = q_args.end_timestamp

\* C4 (as claimed): with page_number = p and page_size = s both given, the
\* first fetch starts at offset (p - 1) * s and the call yields exactly the
\* matching rows of rank (p - 1) * s + 1 .. min(p * s, N) in ascending order;
\* when one of the two is not given the offset is 0.
PageIsRankWindow ==
    LET given == q_args.page_number # << >> /\ q_args.page_size # << >>
        p == q_args.page_number[1]
        s == q_args.page_size[1]
    IN  /\ (q_pc = "done" /\ QueryResolved /\ given)
            => /\ IsRankWindow(Flatten(q_yielded), (p - 1) * s + 1, p * s)
               /\ q_fetches # << >> => q_fetches[1].offset = (p - 1) * s
        /\ (q_pc = "done" /\ QueryResolved /\ ~given /\ q_fetches # << >>)
            => q_fetches[1].offset = 0

\* C5: a call with a sensor name that no stored sensor has ends without a
\* batch, without an error and without a fetch.
UnknownSensorYieldsNothing ==
    (q_pc # "idle"
        /\ ~ \E x \in sensor_info : x.sensor_name = q_args.sensor_name)
    => /\ q_pc = "done"
       /\ q_yielded = << >>
       /\ q_fetches = << >>
       /\ q_error = NONE

\* Witness of C5: the name is unknown while the measurement store holds rows
\* inside the queried range.
WitnessUnknownSensor ==
    /\ q_pc = "done"
    /\ ~ \E x \in sensor_info : x.sensor_name = q_args.sensor_name
    /\ "Sensor is not found." \in q_log
    /\ \E x \in sensor_measurement :
          /\ q_args.start_timestamp <= x.timestamp
          /\ x.timestamp <= q_args.end_timestamp

\* The rows the fetches before the i-th returned.
RECURSIVE ReturnedBefore(_)
ReturnedBefore(i) ==
    IF i <= 1 THEN 0 ELSE ReturnedBefore(i - 1) + q_fetches[i - 1].returned

\* C15: every fetch asks for at most 500 rows and, under a page size, for at
\* most the page size minus the rows yielded so far; it starts at the initial
\* offset plus the rows yielded so far; a fetch without rows is the last one;
\* no fetch is issued once the rows yielded have reached the page size; a
\* finished call has met one of the two stop conditions; the message is
\* logged exactly when the first fetch returned no row.
FetchProtocol ==
    LET n == Len(q_fetches)
        size == q_args.page_size
        start == initial_offset(q_args.page_number, q_args.page_size)
    IN  /\ \A i \in 1..n :
              /\ q_fetches[i].batch_size <= default_batch_size
              /\ q_fetches[i].batch_size >= 1
              /\ q_fetches[i].returned <= q_fetches[i].batch_size
              /\ q_fetches[i].offset = start + ReturnedBefore(i)
              /\ size # << >>
                    => /\ ReturnedBefore(i) < size[1]
                       /\ q_fetches[i].batch_size <= size[1] - ReturnedBefore(i)
              /\ q_fetches[i].returned = 0 => (i = n /\ q_pc = "done")
        /\ ReturnedBefore(n + 1) = Len(Flatten(q_yielded))
        /\ (q_pc = "done" /\ QueryResolved)
              => \/ n > 0 /\ q_fetches[n].returned = 0
                 \/ size # << >> /\ ReturnedBefore(n + 1) = size[1]
        /\ ("No sensor readings found." \in q_log)
              <=> (n > 0 /\ q_fetches[1].returned = 0)

\* Witness of C15: page 2 of size 501 over 1001 rows: the first fetch starts at
\* offset 501 and is capped at 500 rows, the second asks for the one row left
\* of the page, gets none and ends the call without the message.
WitnessFetchProtocol ==
    /\ q_pc = "done"
    /\ q_args.page_number = << 2 >>
    /\ q_args.page_size = << 501 >>
    /\ q_fetches = << [offset |-> 501, batch_size |-> 500, returned |-> 500],
                      [offset |-> 1001, batch_size |-> 1, returned |-> 0] >>
    /\ q_log = {}

\* The claim of C4 restricted to page_number >= 1: holds in SpecQuery.
PageIsRankWindowFromPageOne ==
    (q_args.page_number # << >> => q_args.page_number[1] >= 1) => PageIsRankWindow

\* ------------------------------------------------------------------------
\* DatabaseManager and MinioManager: construction, health checks, disposal
\* ------------------------------------------------------------------------
MainURIs == {"postgresql+asyncpg://main", "postgresql+asyncpg://main2"}
TimescaleURIs == {"postgresql+asyncpg://timescale", "postgresql+asyncpg://timescale2"}

\* Mutant: the engines are created again when they are gone.
ConstructManagerWhenDisposed(database_uri, timescale_db_uri) ==
    IF ~has_instance \/ db_engine = NONE
    THEN /\ has_instance' = TRUE
         /\ db_engine' = database_uri
         /\ ts_engine' = timescale_db_uri
         /\ db_factory' = database_uri
         /\ ts_factory' = timescale_db_uri
         /\ last_call' = [NoCall EXCEPT !.op = "DatabaseManager",
                                        !.created = {"db", "timescale"}]
    ELSE /\ UNCHANGED managerVars
         /\ last_call' = [NoCall EXCEPT !.op = "DatabaseManager"]

\* DatabaseManager.__new__: the engines and the session factories are created
\* only when the class has no attribute "instance" yet.
ConstructManager(database_uri, timescale_db_uri) ==
    IF ~has_instance
    THEN /\ has_instance' = TRUE
         /\ db_engine' = database_uri
         /\ ts_engine' = timescale_db_uri
         /\ db_factory' = database_uri
         /\ ts_factory' = timescale_db_uri
         /\ last_call' = [NoCall EXCEPT !.op = "DatabaseManager",
                                        !.created = {"db", "timescale"}]
    ELSE /\ UNCHANGED managerVars
         /\ last_call' = [NoCall EXCEPT !.op = "DatabaseManager"]

DatabaseManager_new ==
    /\ \E database_uri \in MainURIs, timescale_db_uri \in TimescaleURIs :
          ConstructManager(database_uri, timescale_db_uri)
    /\ UNCHANGED << storeVars, historyVars, minio_client, queryVars, v_last,
                    mainVars, ingestVars >>

\* Mutant: no test of the attribute, so dispose() is called on None.
dispose_one_unguarded(engine, label) ==
    IF engine # NONE
    THEN [engine |-> NONE, disposed |-> {label}, error |-> NONE]
    ELSE [engine |-> engine, disposed |-> {}, error |-> "AttributeError"]

\* if engine: await engine.dispose(); engine = None
dispose_one(engine, label) ==
    IF engine # NONE
    THEN [engine |-> NONE, disposed |-> {label}, error |-> NONE]
    ELSE [engine |-> engine, disposed |-> {}, error |-> NONE]

\* DatabaseManager.dispose_engine.  cls._instance is None before and after;
\* the attribute "instance" that __new__ tests is left alone, and so are the
\* session factories.
DisposeEngines ==
    LET main == dispose_one(db_engine, "db")
        timescale == dispose_one(ts_engine, "timescale")
    IN  /\ db_engine' = main.engine
        /\ ts_engine' = timescale.engine
        /\ UNCHANGED << db_factory, ts_factory, has_instance >>
        /\ last_call' = [NoCall EXCEPT
                           !.op = "dispose_engine",
                           !.disposed = main.disposed \cup timescale.disposed,
                           !.error = IF main.error # NONE THEN main.error
                                     ELSE timescale.error]

dispose_engine ==
    /\ DisposeEngines
    /\ UNCHANGED << storeVars, historyVars, minio_client, queryVars, v_last,
                    mainVars, ingestVars >>

\* _check_db_connection: open a session, run SELECT 1; any exception, the
\* RuntimeError of a missing engine included, is reported as False.
check_db_connection(session, reachable) ==
    IF session = "RuntimeError" THEN FALSE ELSE reachable

check_main_db_connection ==
    /\ \E reachable \in BOOLEAN :
          last_call' = [NoCall EXCEPT
                          !.op = "check_main_db_connection",
                          !.result = check_db_connection(get_db_session, reachable)]
    /\ UNCHANGED << storeVars, historyVars, clientVars, queryVars, v_last,
                    mainVars, ingestVars >>

check_timescale_db_connection ==
    /\ \E reachable \in BOOLEAN :
          last_call' = [NoCall EXCEPT
                          !.op = "check_timescale_db_connection",
                          !.result = check_db_connection(get_timescale_db_session,
                                                         reachable)]
    /\ UNCHANGED << storeVars, historyVars, clientVars, queryVars, v_last,
                    mainVars, ingestVars >>

\* async with DatabaseManager.get_db_session(): pass
with_db_session ==
    /\ last_call' = IF get_db_session = "RuntimeError"
                    THEN [NoCall EXCEPT !.op = "get_db_session",
                                        !.error = "RuntimeError"]
                    ELSE [NoCall EXCEPT !.op = "get_db_session", !.sessions = 1]
    /\ UNCHANGED << storeVars, historyVars, clientVars, queryVars, v_last,
                    mainVars, ingestVars >>

\* async with DatabaseManager.get_timescale_db_session(): pass.  The session
\* is committed when the block is left.
with_timescale_db_session ==
    /\ last_call' = IF get_timescale_db_session = "RuntimeError"
                    THEN [NoCall EXCEPT !.op = "get_timescale_db_session",
                                        !.error = "RuntimeError"]
                    ELSE [NoCall EXCEPT !.op = "get_timescale_db_session",
                                        !.sessions = 1, !.commits = 1]
    /\ UNCHANGED << storeVars, historyVars, clientVars, queryVars, v_last,
                    mainVars, ingestVars >>

\* The endpoints MinioManager instances are constructed with.  A Minio client
\* is named by the endpoint of the instance that created it.
MinioEndpoints == {"minio:9000", "minio.example.com"}

\* Mutant: every call creates a client from the settings of its instance.
minio_client_uncached(current, minio_endpoint) ==
    [client |-> minio_endpoint, created |-> {"minio"}]

\* if MinioManager.minio_client is None: MinioManager.minio_client = Minio(...)
minio_client_cached(current, minio_endpoint) ==
    IF current = NONE
    THEN [client |-> minio_endpoint, created |-> {"minio"}]
    ELSE [client |-> current, created |-> {}]

\* MinioManager.get_minio_client on an instance with the given endpoint: the
\* client is created when the class attribute is None; the class attribute is
\* returned.
GetMinioClient(minio_endpoint) ==
    LET got == minio_client_cached(minio_client, minio_endpoint)
    IN  /\ minio_client' = got.client
        /\ last_call' = [NoCall EXCEPT
                           !.op = "get_minio_client",
                           !.argument = minio_endpoint,
                           !.created = got.created,
                           !.returned = got.client]

get_minio_client ==
    /\ \E minio_endpoint \in MinioEndpoints : GetMinioClient(minio_endpoint)
    /\ UNCHANGED << storeVars, historyVars, managerVars, queryVars, v_last,
                    mainVars, ingestVars >>

InitManager ==
    /\ InitStores
    /\ db_engine = NONE
    /\ ts_engine = NONE
    /\ db_factory = NONE
    /\ ts_factory = NONE
    /\ has_instance = FALSE
    /\ minio_client = NONE
    /\ InitQueryIdle
    /\ InitMainIdle
    /\ InitIngestIdle
    /\ v_last = NoValidation
    /\ last_call = NoCall

NextManager ==
    \/ DatabaseManager_new
    \/ dispose_engine
    \/ check_main_db_connection
    \/ check_timescale_db_connection
    \/ with_db_session
    \/ with_timescale_db_session
    \/ get_minio_client

SpecManager == InitManager /\ [][NextManager]_vars

\* C8: a dispose_engine call that follows a dispose_engine call, or that is
\* made while the engines were never created, raises nothing, disposes no
\* engine and leaves the manager state as it was.
DisposeEngineIdempotent ==
    [][(dispose_engine /\ (last_call.op = "dispose_engine" \/ ~has_instance))
         => /\ managerVars' = managerVars
            /\ last_call'.disposed = {}
            /\ last_call'.error = NONE]_vars

\* Witness of C8: dispose_engine has run on a constructed manager whose
\* engines were already disposed.
WitnessDisposedTwice ==
    /\ has_instance
    /\ last_call.op = "dispose_engine"
    /\ last_call.disposed = {}
    /\ last_call.error = NONE
    /\ db_engine = NONE /\ ts_engine = NONE
    /\ db_factory # NONE /\ ts_factory # NONE

EnginesDisposed == has_instance /\ db_engine = NONE /\ ts_engine = NONE

\* C18: only the first construction of DatabaseManager creates the engines: a
\* later one, with whatever URIs, changes nothing of the class; so once
\* dispose_engine has run on a constructed manager the engines stay None,
\* every session request raises RuntimeError and both health checks return
\* False.
EnginesCreatedOnce ==
    /\ [][(DatabaseManager_new /\ has_instance)
            => /\ managerVars' = managerVars
               /\ last_call'.created = {}]_vars
    /\ [][EnginesDisposed => EnginesDisposed']_vars
    /\ [](EnginesDisposed
            => /\ last_call.op \in {"get_db_session", "get_timescale_db_session"}
                    => last_call.error = "RuntimeError"
               /\ last_call.op \in {"check_main_db_connection",
                                     "check_timescale_db_connection"}
                    => last_call.result = FALSE)
    /\ [](last_call.created = {"db", "timescale"}
            => /\ db_engine \in MainURIs /\ db_factory = db_engine
               /\ ts_engine \in TimescaleURIs /\ ts_factory = ts_engine)

\* Witness of C18: DatabaseManager was constructed again after dispose_engine
\* and the engines are still None.
WitnessNotRecreated ==
    /\ EnginesDisposed
    /\ last_call.op = "DatabaseManager"
    /\ last_call.created = {}
    /\ db_factory # NONE /\ ts_factory # NONE

\* C13: the Minio client is created by the first get_minio_client call only;
\* every later call, on an instance with any settings, creates nothing and
\* returns the client the class already holds.
MinioClientIsSingleton ==
    [][get_minio_client
         => /\ last_call'.returned = minio_client'
            /\ minio_client' # NONE
            /\ minio_client = NONE => last_call'.created = {"minio"}
            /\ minio_client # NONE => /\ minio_client' = minio_client
                                     /\ last_call'.created = {}]_vars

\* Witness of C13: get_minio_client on an instance with other settings than
\* those of the creating instance has returned the existing client.
WitnessSameMinioClient ==
    /\ last_call.op = "get_minio_client"
    /\ last_call.created = {}
    /\ last_call.argument # minio_client
    /\ last_call.returned = minio_client
    /\ minio_client \in MinioEndpoints

\* ------------------------------------------------------------------------
\* Record validators of SensorDataService
\* ------------------------------------------------------------------------
MaxChunk == 2

\* A CSV cell that pandas read as missing.
NaN == "NaN"

\* Cells of mapping.csv and of the timeseries files.  A timestamp cell is
\* timezone-aware, naive, or not a timestamp at all; a value cell is a number
\* or some other text.
RawUUIDs == {"A", "B", "not-a-uuid", NaN}
RawNames == {"temp1", NaN}
RawTimestamps ==
    { [kind |-> "aware", wall |-> 10, off |-> 1],
      [kind |-> "naive", wall |-> 10, off |-> 0],
      [kind |-> "bad", wall |-> 0, off |-> 0] }
RawValues == { [kind |-> "number", val |-> 5], [kind |-> "text", val |-> 0] }

RawSensorRows == [sensor_uuid : RawUUIDs, sensor_name : RawNames]
RawMeasurementRows ==
    [timestamp : RawTimestamps, sensor_uuid : {"A", "not-a-uuid", NaN},
     sensor_value : RawValues]

\* pydantic UUID: the cell parses as a UUID.
IsUUID(cell) == cell \in UUIDs

\* SensorInfoValidator: sensor_name is a str (a missing cell is a float NaN),
\* sensor_uuid is a UUID.
SensorInfoValidator(row) ==
    /\ row.sensor_name # NaN
    /\ IsUUID(row.sensor_uuid)

\* _validate_sensors_data: Pandantic.validate(errors="skip") drops the rows
\* the schema rejects; to_dict("records") keeps the others in order.
validate_sensors_data_result(chunk) ==
    [error |-> NONE, records |-> SelectSeq(chunk, SensorInfoValidator)]

\* UTC offset of Europe/Berlin at a wall-clock hour of the day the clocks go
\* back: summer time (+02:00) up to 03:00, winter time (+01:00) from 03:00
\* on.  The hour 02:00 occurs twice; ambiguous=True reads it as summer time.
BerlinOffset(wall) == IF wall < 3 THEN 2 ELSE 1

\* Mutant: a naive timestamp is taken as UTC.
localize_if_naive_as_utc(timestamp) ==
    IF timestamp.kind = "naive"
    THEN [kind |-> "aware", wall |-> timestamp.wall, off |-> 0]
    ELSE timestamp

\* localize_if_naive: a naive timestamp becomes Europe/Berlin wall-clock time.
localize_if_naive(timestamp) ==
    IF timestamp.kind = "naive"
    THEN [kind |-> "aware", wall |-> timestamp.wall,
          off |-> BerlinOffset(timestamp.wall)]
    ELSE timestamp

\* _preprocess_sensors_measurements_timestamps: pd.to_datetime(...,
\* format="ISO8601") with the default errors="raise" raises ValueError for
\* the whole column when one cell does not parse; then every naive timestamp
\* is localized.
preprocess_sensors_measurements_timestamps(chunk) ==
    IF \E i \in DOMAIN chunk : chunk[i].timestamp.kind = "bad"
    THEN [error |-> "ValueError", chunk |-> chunk]
    ELSE [error |-> NONE,
          chunk |-> [i \in DOMAIN chunk |->
                       [chunk[i] EXCEPT !.timestamp = localize_if_naive(@)]]]

\* SensorMeasurementValidator: timestamp is a datetime, sensor_uuid a UUID,
\* sensor_value a float.
SensorMeasurementValidator(row) ==
    /\ row.timestamp.kind = "aware"
    /\ IsUUID(row.sensor_uuid)
    /\ row.sensor_value.kind = "number"

\* The dictionary to_dict("records") makes of a validated row.
MeasurementRecord(row) ==
    [timestamp |-> [wall |-> row.timestamp.wall, off |-> row.timestamp.off],
     sensor_uuid |-> row.sensor_uuid,
     sensor_value |-> row.sensor_value.val]

\* _validate_sensors_measurements_data: preprocess, then validate with
\* errors="skip".
validate_sensors_measurements_data_result(chunk) ==
    LET pre == preprocess_sensors_measurements_timestamps(chunk)
    IN  IF pre.error # NONE
        THEN [error |-> pre.error, records |-> << >>]
        ELSE LET valid == SelectSeq(pre.chunk, SensorMeasurementValidator)
             IN  [error |-> NONE,
                  records |-> [i \in DOMAIN valid |-> MeasurementRecord(valid[i])]]

validate_sensors_data ==
    /\ \E chunk \in SeqsUpTo(RawSensorRows, MaxChunk) :
          LET res == validate_sensors_data_result(chunk)
          IN  v_last' = [op |-> "_validate_sensors_data", chunk |-> chunk,
                         error |-> res.error, records |-> res.records]
    /\ UNCHANGED << storeVars, historyVars, clientVars, queryVars, last_call,
                    mainVars, ingestVars >>

validate_sensors_measurements_data ==
    /\ \E chunk \in SeqsUpTo(RawMeasurementRows, MaxChunk) :
          LET res == validate_sensors_measurements_data_result(chunk)
          IN  v_last' = [op |-> "_validate_sensors_measurements_data",
                         chunk |-> chunk,
                         error |-> res.error, records |-> res.records]
    /\ UNCHANGED << storeVars, historyVars, clientVars, queryVars, last_call,
                    mainVars, ingestVars >>

NextValidate == validate_sensors_data \/ validate_sensors_measurements_data

SpecValidate == Init /\ [][NextValidate]_vars

\* What the schemas of the specification accept, row by row.
WellFormedSensorRow(row) ==
    row.sensor_name # NaN /\ row.sensor_uuid \in UUIDs

WellFormedMeasurementRow(row) ==
    /\ row.timestamp.kind \in {"aware", "naive"}
    /\ row.sensor_uuid \in UUIDs
    /\ row.sensor_value.kind = "number"

\* A measurement row as it is expected back: its timestamp read as
\* Europe/Berlin time when naive, nothing else changed.
ExpectedMeasurementRecord(row) ==
    [timestamp |-> [wall |-> row.timestamp.wall,
                    off |-> IF row.timestamp.kind = "naive"
                            THEN BerlinOffset(row.timestamp.wall)
                            ELSE row.timestamp.off],
     sensor_uuid |-> row.sensor_uuid,
     sensor_value |-> row.sensor_value.val]

ExpectedValidation ==
    IF v_last.op = "_validate_sensors_data"
    THEN SelectSeq(v_last.chunk, WellFormedSensorRow)
    ELSE LET kept == SelectSeq(v_last.chunk, WellFormedMeasurementRow)
         IN  [i \in DOMAIN kept |-> ExpectedMeasurementRecord(kept[i])]

\* C9 (as claimed): the validators raise nothing, return every well-formed
\* row of the batch in order and none of the others; an unparseable
\* timestamp only drops its row.
ValidationNeverEscalates ==
    v_last.op # NONE
        => /\ v_last.error = NONE
           /\ v_last.records = ExpectedValidation

\* The claim of C9 on the batches without an unparseable timestamp: holds in
\* SpecValidate.
ValidationSkipsInvalidRows ==
    (v_last.op # NONE
        /\ \A i \in DOMAIN v_last.chunk :
              v_last.op = "_validate_sensors_measurements_data"
                  => v_last.chunk[i].timestamp.kind # "bad")
        => /\ v_last.error = NONE
           /\ v_last.records = ExpectedValidation

\* ------------------------------------------------------------------------
\* Orchestration: run_worker and main
\* ------------------------------------------------------------------------
\* Rows in the bucket: of mapping/mapping.csv, and of the measurement files
\* of one listing together.
MaxRows == 3

\* Rows of mapping/mapping.csv: two sensors and a malformed identifier.
MappingRows ==
    { [sensor_uuid |-> "A", sensor_name |-> "temp1"],
      [sensor_uuid |-> "B", sensor_name |-> "temp1"],
      [sensor_uuid |-> "not-a-uuid", sensor_name |-> "temp1"] }

\* pd.read_csv(chunksize=...): consecutive chunks of chunksize rows, the last
\* one shorter; no chunk for a file without rows.
RECURSIVE read_csv(_, _)
read_csv(rows, chunksize) ==
    IF rows = << >> THEN << >>
    ELSE IF Len(rows) <= chunksize THEN << rows >>
    ELSE << SubSeq(rows, 1, chunksize) >>
             \o read_csv(SubSeq(rows, chunksize + 1, Len(rows)), chunksize)

\* mapping/mapping.csv as the reader hands it over: some rows, split with some
\* chunk size.
MappingFiles ==
    { read_csv(rows, chunksize) :
        rows \in SeqsUpTo(MappingRows, MaxRows), chunksize \in 1..MaxChunk }

\* The coroutine methods that class SensorDataService defines.
SensorDataServiceMethods ==
    { "get_and_store_sensors_information",
      "get_and_store_sensors_measurements",
      "get_sensor_readings" }

Errors == {"RuntimeError", "S3Error", "DBAPIError", "IntegrityError",
           "AttributeError", "ValueError"}

Raise(error) ==
    /\ m_error' = error
    /\ m_trace' = Append(m_trace, error)
    /\ m_pc' = "except"

\* Lines 41-49: construct the DatabaseManager.
main_construct ==
    /\ m_pc = "construct"
    /\ \E database_uri \in MainURIs, timescale_db_uri \in TimescaleURIs :
          ConstructManager(database_uri, timescale_db_uri)
    /\ m_pc' = "check_main"
    /\ UNCHANGED << storeVars, historyVars, minio_client, queryVars, v_last,
                    m_chunks, m_error, m_logged, m_faulted, m_trace,
                    ingestVars >>

\* Lines 52-53: health check of the main database.
main_check_main_db ==
    /\ m_pc = "check_main"
    /\ \E reachable \in BOOLEAN :
          /\ m_faulted' = (m_faulted \/ ~reachable)
          /\ IF check_db_connection(get_db_session, reachable)
             THEN /\ m_pc' = "check_timescale"
                  /\ UNCHANGED << m_error, m_trace >>
             ELSE Raise("RuntimeError")
    /\ UNCHANGED << storeVars, historyVars, clientVars, queryVars, v_last,
                    last_call, m_chunks, m_logged,
                    ingestVars >>

\* Lines 55-56: health check of the Timescale database.
main_check_timescale_db ==
    /\ m_pc = "check_timescale"
    /\ \E reachable \in BOOLEAN :
          /\ m_faulted' = (m_faulted \/ ~reachable)
          /\ IF check_db_connection(get_timescale_db_session, reachable)
             THEN /\ m_pc' = "minio"
                  /\ UNCHANGED << m_error, m_trace >>
             ELSE Raise("RuntimeError")
    /\ UNCHANGED << storeVars, historyVars, clientVars, queryVars, v_last,
                    last_call, m_chunks, m_logged,
                    ingestVars >>

\* Lines 58-65: repository and MinIO client.
main_get_minio_client ==
    /\ m_pc = "minio"
    /\ \E minio_endpoint \in MinioEndpoints : GetMinioClient(minio_endpoint)
    /\ m_pc' = "read_mapping"
    /\ UNCHANGED << storeVars, historyVars, managerVars, queryVars, v_last,
                    m_chunks, m_error, m_logged, m_faulted, m_trace,
                    ingestVars >>

\* run_worker line 32, get_and_store_sensors_information lines 147-151: fetch
\* mapping/mapping.csv from the blob store.
run_worker_read_mapping ==
    /\ m_pc = "read_mapping"
    /\ \E available \in BOOLEAN :
          /\ m_faulted' = (m_faulted \/ ~available)
          /\ IF available
             THEN /\ m_pc' = "store_chunk"
                  /\ m_trace' = Append(m_trace, "run_worker")
                  /\ UNCHANGED m_error
             ELSE Raise("S3Error")
    /\ UNCHANGED << storeVars, historyVars, clientVars, queryVars, v_last,
                    last_call, m_chunks, m_logged,
                    ingestVars >>

\* get_and_store_sensors_information lines 153-164: validate the next chunk
\* and store its records when there are any; after the last chunk the
\* metadata phase is complete.
run_worker_store_chunk ==
    /\ m_pc = "store_chunk"
    /\ IF m_chunks = << >>
       THEN /\ m_pc' = "measurements"
            /\ m_trace' = Append(m_trace, "info_done")
            /\ UNCHANGED << sensor_info, first_name, last_call, v_last, m_chunks,
                            m_error, m_faulted >>
       ELSE LET validated == validate_sensors_data_result(Head(m_chunks))
            IN  /\ v_last' = [op |-> "_validate_sensors_data",
                              chunk |-> Head(m_chunks),
                              error |-> validated.error,
                              records |-> validated.records]
                /\ m_chunks' = Tail(m_chunks)
                /\ IF validated.records = << >>
                   THEN UNCHANGED << sensor_info, first_name, last_call, m_pc,
                                     m_error, m_faulted, m_trace >>
                   ELSE \E fault \in Faults :
                          LET res == store_sensors_data_result(
                                         sensor_info, validated.records, fault)
                          IN  /\ sensor_info' = res.table
                              /\ last_call' = res.call
                              /\ m_faulted' = (m_faulted \/ fault # "none")
                              /\ IF res.call.error = NONE
                                 THEN /\ first_name' = RecordFirstNames(
                                             first_name, validated.records)
                                      /\ UNCHANGED << m_pc, m_error, m_trace >>
                                 ELSE /\ Raise(res.call.error)
                                      /\ UNCHANGED first_name
    /\ UNCHANGED << sensor_measurement, first_value, clientVars, queryVars,
                    m_logged,
                    ingestVars >>

\* run_worker line 34: await service.get_and_store_sensor_measurements().
\* The attribute is looked up on the service object.
run_worker_measurements ==
    /\ m_pc = "measurements"
    /\ IF "get_and_store_sensor_measurements" \in SensorDataServiceMethods
       THEN /\ m_pc' = "measurements_running"
            /\ m_trace' = Append(m_trace, "measurements_started")
            /\ UNCHANGED m_error
       ELSE Raise("AttributeError")
    /\ UNCHANGED << storeVars, historyVars, clientVars, queryVars, v_last,
                    last_call, m_chunks, m_logged, m_faulted,
                    ingestVars >>

\* Mutant: the cleanup follows the try block instead of sitting in a finally
\* clause, so an exception skips it.
cleanup_after_without_finally(failed) == IF failed THEN "end" ELSE "finally"

\* try / except / finally of main: the finally clause is entered on both
\* paths.
cleanup_after(failed) == "finally"

\* Lines 74-76: log the exception and re-raise it.
main_except ==
    /\ m_pc = "except"
    /\ m_logged' = m_logged \cup {m_error}
    /\ m_pc' = cleanup_after(TRUE)
    /\ UNCHANGED << storeVars, historyVars, clientVars, queryVars, v_last,
                    last_call, m_chunks, m_error, m_faulted, m_trace,
                    ingestVars >>

\* Lines 78-80: dispose the engines; the exception in flight, if any, then
\* leaves main.
main_finally ==
    /\ m_pc = "finally"
    /\ DisposeEngines
    /\ m_trace' = Append(m_trace, "dispose_engine")
    /\ m_pc' = "end"
    /\ UNCHANGED << storeVars, historyVars, minio_client, queryVars, v_last,
                    m_chunks, m_error, m_logged, m_faulted,
                    ingestVars >>

\* A fresh process: nothing constructed, empty stores, some mapping file in
\* the bucket.
InitMain ==
    /\ InitStores
    /\ db_engine = NONE
    /\ ts_engine = NONE
    /\ db_factory = NONE
    /\ ts_factory = NONE
    /\ has_instance = FALSE
    /\ minio_client = NONE
    /\ InitQueryIdle
    /\ InitIngestIdle
    /\ v_last = NoValidation
    /\ last_call = NoCall
    /\ m_pc = "construct"
    /\ m_chunks \in MappingFiles
    /\ m_error = NONE
    /\ m_logged = {}
    /\ m_faulted = FALSE
    /\ m_trace = << >>

NextMain ==
    \/ main_construct
    \/ main_check_main_db
    \/ main_check_timescale_db
    \/ main_get_minio_client
    \/ run_worker_read_mapping
    \/ run_worker_store_chunk
    \/ run_worker_measurements
    \/ main_except
    \/ main_finally

SpecMain == InitMain /\ [][NextMain]_vars

\* main is one coroutine that asyncio.run drives to its end.
SpecMainFair == SpecMain /\ WF_vars(NextMain)

Happened(event) == \E i \in DOMAIN m_trace : m_trace[i] = event

\* C6 (as claimed): a run_worker run in which no blob-store call and no store
\* call fails completes the metadata ingestion, then starts and completes the
\* measurement ingestion, and ends successfully; no measurement is written
\* before the metadata ingestion has completed.
WorkerRunsBothPhases ==
    /\ (m_pc = "end" /\ Happened("run_worker") /\ ~m_faulted)
          => /\ Happened("info_done")
             /\ Happened("measurements_started")
             /\ Happened("measurements_done")
             /\ m_error = NONE
    /\ sensor_measurement # {} => Happened("info_done")

\* C7: every run of main reaches its end, the engines are disposed before
\* it, and a failure is logged and is the error main raises.
MainAlwaysCleansUp ==
    /\ [](m_pc = "end"
            => /\ Happened("dispose_engine")
               /\ db_engine = NONE /\ ts_engine = NONE
               /\ \A e \in Errors : Happened(e) => (e \in m_logged /\ m_error = e)
               /\ (~ \E e \in Errors : Happened(e)) => m_error = NONE)
    /\ <>(m_pc = "end")

\* Witness of C7: main has ended on a failure of the worker after sensors were
\* stored; the engines are disposed and the failure was logged and raised.
WitnessCleanupAfterFailure ==
    /\ m_pc = "end"
    /\ Happened("run_worker")
    /\ sensor_info # {}
    /\ m_error \in Errors
    /\ m_error \in m_logged
    /\ last_call.op = "dispose_engine"
    /\ last_call.disposed = {"db", "timescale"}

\* ------------------------------------------------------------------------
\* Measurement ingestion: SensorDataService.get_and_store_sensors_measurements
\* ------------------------------------------------------------------------
MaxObjects == 2

\* object_name of a listed descriptor: None, an empty name, or the name of a
\* file under timeseries/.
FileNames == {"timeseries/a.csv", "timeseries/b.csv"}
ObjectNames == {NONE, ""} \cup FileNames

\* list_objects yields no file name twice.
Listings ==
    { l \in SeqsUpTo(ObjectNames, MaxObjects) :
        \A i, j \in DOMAIN l : (i # j /\ l[i] = l[j]) => l[i] \notin FileNames }

\* Rows of the measurement files: one instant of sensor A written with two
\* offsets and as naive Berlin time in the ambiguous hour, with two values; a
\* second instant; an unparseable timestamp.
IngestRows ==
    { [timestamp |-> [kind |-> "aware", wall |-> 1, off |-> 1],
       sensor_uuid |-> "A", sensor_value |-> [kind |-> "number", val |-> 5]],
      [timestamp |-> [kind |-> "aware", wall |-> 0, off |-> 0],
       sensor_uuid |-> "A", sensor_value |-> [kind |-> "number", val |-> 7]],
      [timestamp |-> [kind |-> "naive", wall |-> 2, off |-> 0],
       sensor_uuid |-> "A", sensor_value |-> [kind |-> "number", val |-> 5]],
      [timestamp |-> [kind |-> "naive", wall |-> 10, off |-> 0],
       sensor_uuid |-> "A", sensor_value |-> [kind |-> "number", val |-> 7]],
      [timestamp |-> [kind |-> "bad", wall |-> 0, off |-> 0],
       sensor_uuid |-> "A", sensor_value |-> [kind |-> "number", val |-> 5]] }

IngestFiles == SeqsUpTo(IngestRows, MaxRows)

RECURSIVE RowsIn(_)
RowsIn(chunks) ==
    IF chunks = << >> THEN 0 ELSE Len(Head(chunks)) + RowsIn(Tail(chunks))

\* An exception leaves get_and_store_sensors_measurements.
IngestRaise(error) ==
    /\ i_error' = error
    /\ i_pc' = "done"

\* Lines 171-177: list the objects under timeseries/.
get_and_store_sensors_measurements_list ==
    /\ i_pc = "idle"
    /\ \E available \in BOOLEAN :
          IF available
          THEN i_pc' = "object" /\ UNCHANGED i_error
          ELSE IngestRaise("S3Error")
    /\ UNCHANGED << storeVars, historyVars, clientVars, queryVars, last_call,
                    v_last, mainVars, i_objects, i_chunks, i_chunk_size,
                    i_trace, i_ingested >>

\* Lines 178-192 and 203: take the next listed descriptor; skip it with a
\* warning when its name is None, else get the object and split it into
\* chunks.  Minio.get_object rejects an empty object name with ValueError.
get_and_store_sensors_measurements_object ==
    /\ i_pc = "object"
    /\ IF i_objects = << >>
       THEN /\ i_pc' = "done"
            /\ UNCHANGED << i_objects, i_chunks, i_trace, i_error >>
       ELSE LET object_name == Head(i_objects)
            IN  /\ i_objects' = Tail(i_objects)
                /\ IF object_name = NONE
                   THEN /\ i_trace' = Append(i_trace,
                               [event |-> "warning", object_name |-> object_name])
                        /\ UNCHANGED << i_pc, i_chunks, i_error >>
                   ELSE /\ i_trace' = Append(i_trace,
                               [event |-> "get_object", object_name |-> object_name])
                        /\ IF object_name = ""
                           THEN /\ IngestRaise("ValueError")
                                /\ UNCHANGED i_chunks
                           ELSE \E available \in BOOLEAN :
                                  IF available
                                  THEN \E rows \in IngestFiles :
                                         /\ RowsIn(i_ingested) + Len(rows) <= MaxRows
                                         /\ i_chunks' = read_csv(rows, i_chunk_size)
                                         /\ i_pc' = "chunk"
                                         /\ UNCHANGED i_error
                                  ELSE /\ IngestRaise("S3Error")
                                       /\ UNCHANGED i_chunks
    /\ UNCHANGED << storeVars, historyVars, clientVars, queryVars, last_call,
                    v_last, mainVars, i_chunk_size, i_ingested >>

\* Lines 194-202: validate the next chunk of the file and store its records
\* when there are any; after the last chunk go on with the next descriptor.
get_and_store_sensors_measurements_chunk ==
    /\ i_pc = "chunk"
    /\ IF i_chunks = << >>
       THEN /\ i_pc' = "object"
            /\ UNCHANGED << sensor_measurement, first_value, last_call, v_last,
                            i_chunks, i_ingested, i_error >>
       ELSE LET chunk == Head(i_chunks)
                validated == validate_sensors_measurements_data_result(chunk)
            IN  /\ i_chunks' = Tail(i_chunks)
                /\ i_ingested' = Append(i_ingested, chunk)
                /\ v_last' = [op |-> "_validate_sensors_measurements_data",
                              chunk |-> chunk, error |-> validated.error,
                              records |-> validated.records]
                /\ IF validated.error # NONE
                   THEN /\ IngestRaise(validated.error)
                        /\ UNCHANGED << sensor_measurement, first_value, last_call >>
                   ELSE IF validated.records = << >>
                   THEN UNCHANGED << sensor_measurement, first_value, last_call,
                                     i_pc, i_error >>
                   ELSE \E fault \in Faults :
                          LET res == store_sensors_measurements_result(
                                         sensor_measurement, validated.records, fault)
                          IN  /\ sensor_measurement' = res.table
                              /\ last_call' = res.call
                              /\ IF res.call.error = NONE
                                 THEN /\ first_value' = RecordFirstValues(
                                             first_value, validated.records)
                                      /\ UNCHANGED << i_pc, i_error >>
                                 ELSE /\ IngestRaise(res.call.error)
                                      /\ UNCHANGED first_value
    /\ UNCHANGED << sensor_info, first_name, clientVars, queryVars, mainVars,
                    i_objects, i_chunk_size, i_trace >>

\* One call of one of the two ingestion methods of the service, on a
\* constructed manager and empty stores: get_and_store_sensors_information on
\* some mapping file, or get_and_store_sensors_measurements on some listing.
InitService ==
    /\ InitStores
    /\ InitManagerConstructed
    /\ InitQueryIdle
    /\ v_last = NoValidation
    /\ last_call = NoCall
    /\ \/ /\ m_pc = "read_mapping"
          /\ m_chunks \in MappingFiles
          /\ m_error = NONE
          /\ m_logged = {}
          /\ m_faulted = FALSE
          /\ m_trace = << >>
          /\ InitIngestIdle
       \/ /\ InitMainIdle
          /\ i_pc = "idle"
          /\ i_objects \in Listings
          /\ i_chunks = << >>
          /\ i_chunk_size \in 1..MaxChunk
          /\ i_trace = << >>
          /\ i_ingested = << >>
          /\ i_error = NONE

NextService ==
    \/ run_worker_read_mapping
    \/ run_worker_store_chunk
    \/ get_and_store_sensors_measurements_list
    \/ get_and_store_sensors_measurements_object
    \/ get_and_store_sensors_measurements_chunk

SpecService == InitService /\ [][NextService]_vars

\* The loop of lines 194-200 over a sequence of chunks, no call failing: the
\* table it leaves.
RECURSIVE IngestChunks(_, _)
IngestChunks(table, chunks) ==
    IF chunks = << >> THEN table
    ELSE LET validated == validate_sensors_measurements_data_result(Head(chunks))
             stored == IF validated.records = << >> THEN table
                       ELSE store_sensors_measurements_result(
                                table, validated.records, "none").table
         IN  IngestChunks(stored, Tail(chunks))

\* The same chunks with the i-th and the j-th exchanged.
Swapped(chunks, i, j) ==
    [k \in DOMAIN chunks |->
        IF k = i THEN chunks[j] ELSE IF k = j THEN chunks[i] ELSE chunks[k]]

IngestionCompleted == i_pc = "done" /\ i_error = NONE

NaturalKeys(table) == { << x.sensor_uuid, x.timestamp >> : x \in table }

\* The rows the validated records of the ingested chunks stand for.
IngestedRows ==
    UNION { { MeasurementRow(r) :
                r \in Range(validate_sensors_measurements_data_result(
                                i_ingested[k]).records) } :
            k \in DOMAIN i_ingested }

\* No two ingested rows of one natural key differ in value.
IngestedRowsAgree ==
    \A x, y \in IngestedRows :
        (x.sensor_uuid = y.sensor_uuid /\ x.timestamp = y.timestamp)
            => x.sensor_value = y.sensor_value

\* C11 (as claimed): ingesting the chunks of a completed run in another order
\* leaves the measurement store with the same rows.
OrderOfWritesHasNoEffect ==
    IngestionCompleted
        => \A i, j \in DOMAIN i_ingested :
              IngestChunks({}, Swapped(i_ingested, i, j)) = sensor_measurement

\* C11 (amended): ingesting the chunks in another order leaves the store with
\* the same natural keys, those of all valid rows ingested, and with the same
\* rows when no two ingested rows of one key differ in value.
OrderOfWritesKeepsKeys ==
    IngestionCompleted
        => /\ NaturalKeys(sensor_measurement) = NaturalKeys(IngestedRows)
           /\ IngestedRowsAgree => sensor_measurement = IngestedRows
           /\ \A i, j \in DOMAIN i_ingested :
                 LET other == IngestChunks({}, Swapped(i_ingested, i, j))
                 IN  /\ NaturalKeys(other) = NaturalKeys(sensor_measurement)
                     /\ IngestedRowsAgree => other = sensor_measurement

\* Witness of C11: a run over several chunks has completed with two instants
\* stored, and another order of its chunks leaves another value in the store.
WitnessOrderChangesValue ==
    /\ IngestionCompleted
    /\ Len(i_ingested) >= 3
    /\ Cardinality(sensor_measurement) = 2
    /\ \E i, j \in DOMAIN i_ingested :
          IngestChunks({}, Swapped(i_ingested, i, j)) # sensor_measurement

\* C12 (as claimed): a listed descriptor whose name is empty or missing is
\* skipped with a warning: no get-object call is made for it, it raises no
\* error, and the ingestion goes on with the next descriptor.
NamelessObjectIsSkipped ==
    /\ \A k \in DOMAIN i_trace :
          i_trace[k].object_name \in {NONE, ""} => i_trace[k].event = "warning"
    /\ (i_error # NONE /\ i_trace # << >>)
          => i_trace[Len(i_trace)].object_name \notin {NONE, ""}
    /\ (i_pc = "done" /\ i_error = NONE) => i_objects = << >>

\* The claim of C12 for the descriptors whose name is None: holds in
\* SpecService.
NoneNameIsSkipped ==
    /\ \A k \in DOMAIN i_trace :
          i_trace[k].object_name = NONE => i_trace[k].event = "warning"
    /\ (i_error # NONE /\ i_trace # << >>)
          => i_trace[Len(i_trace)].object_name # NONE
    /\ (i_pc = "done" /\ i_error = NONE) => i_objects = << >>

\* The raw rows of the chunks taken from the files so far.
IngestedRawRows == UNION { Range(i_ingested[k]) : k \in DOMAIN i_ingested }

\* C14: the store holds one row per sensor and UTC instant, whatever offsets
\* the ingested timestamps were written with; its value is that of the first
\* row ingested for the instant; every stored timestamp is the instant of an
\* ingested row, a naive one read as Europe/Berlin wall-clock time.
UniqueOnNormalizedInstant ==
    /\ \A x, y \in sensor_measurement :
          (x.sensor_uuid = y.sensor_uuid /\ x.timestamp = y.timestamp) => x = y
    /\ \A k \in MeasurementKeys :
          Cardinality({x \in sensor_measurement :
                          x.sensor_uuid = k[1] /\ x.timestamp = k[2]})
              = Len(first_value[k])
    /\ \A x \in sensor_measurement :
          /\ << x.sensor_uuid, x.timestamp >> \in MeasurementKeys
          /\ first_value[<< x.sensor_uuid, x.timestamp >>] = << x.sensor_value >>
          /\ \E row \in IngestedRawRows :
                /\ WellFormedMeasurementRow(row)
                /\ x = MeasurementRow(ExpectedMeasurementRecord(row))

\* Witness of C14: a naive timestamp of the ambiguous hour was ingested
\* first, then the same instant written with offset +00:00 and another value;
\* the store holds the one row of the first.
WitnessSameInstantOnce ==
    /\ IngestionCompleted
    /\ Len(i_ingested) = 2
    /\ \E row \in Range(i_ingested[1]) :
          row.timestamp = [kind |-> "naive", wall |-> 2, off |-> 0]
    /\ \E row \in Range(i_ingested[2]) :
          /\ row.timestamp = [kind |-> "aware", wall |-> 0, off |-> 0]
          /\ row.sensor_value.val = 7
    /\ sensor_measurement
          = { [timestamp |-> 0, sensor_uuid |-> "A", sensor_value |-> 5] }

\* C16: a step in which the insert statement or the commit of a writer fails
\* rolls the session back, commits nothing, leaves both stores as they were
\* and raises the error out of the ingestion method; after that the run reads
\* no chunk and writes no row.
FailedWriteIsRolledBack ==
    /\ [][last_call'.error # NONE
            => /\ last_call'.fault \in {"execute", "commit"}
               /\ last_call'.rollbacks = 1
               /\ last_call'.commits = 0
               /\ storeVars' = storeVars
               /\ last_call'.op = "store_sensors_data"
                     => (m_error' = last_call'.error /\ m_pc' = "except")
               /\ last_call'.op = "store_sensors_measurements"
                     => (i_error' = last_call'.error /\ i_pc' = "done")]_vars
    /\ [][(last_call.error # NONE)
            => UNCHANGED << storeVars, m_chunks, i_objects, i_chunks, i_trace,
                            i_ingested >>]_vars
    /\ [](last_call.fault # "none" => last_call.error # NONE)

\* Witness of C16: the commit of a measurement batch failed after an earlier
\* batch of the run was stored and while a listed file was still to come.
WitnessRolledBackMidRun ==
    /\ last_call.op = "store_sensors_measurements"
    /\ last_call.fault = "commit"
    /\ last_call.rollbacks = 1
    /\ i_error = "DBAPIError"
    /\ i_pc = "done"
    /\ sensor_measurement # {}
    /\ Len(i_ingested) = 2
    /\ i_objects # << >>

\* ------------------------------------------------------------------------
\* A reader and an ingestion running at the same time
\* ------------------------------------------------------------------------
\* Records of the queried sensor that an ingestion run of another process
\* stores while get_sensor_readings is suspended in its loop.
ConcurrentRecords ==
    { [timestamp |-> [wall |-> t, off |-> 0], sensor_uuid |-> "A",
       sensor_value |-> ValueAt(t)] : t \in 1..MaxTime }

\* One store_sensors_measurements call of the other process, committed
\* between two fetches of the reader: every fetch of the reader opens a
\* session of its own, so it sees what was committed before it.
concurrent_store_sensors_measurements ==
    /\ q_pc = "loop"
    /\ \E r \in ConcurrentRecords :
          LET res == store_sensors_measurements_result(
                         sensor_measurement, << r >>, "none")
          IN  /\ sensor_measurement' = res.table
              /\ last_call' = res.call
              /\ first_value' = RecordFirstValues(first_value, << r >>)
    /\ UNCHANGED << sensor_info, first_name, clientVars, queryVars, v_last,
                    mainVars, ingestVars >>

InitConcurrent ==
    /\ sensor_info = { [sensor_uuid |-> "A", sensor_name |-> "temp1"] }
    /\ sensor_measurement \in { MeasurementsAt("A", T) : T \in SUBSET (1..MaxTime) }
    /\ first_name = [u \in UUIDs |-> NONE]
    /\ first_value = [k \in MeasurementKeys |-> << >>]
    /\ InitManagerConstructed
    /\ InitQueryIdle
    /\ InitMainIdle
    /\ InitIngestIdle
    /\ v_last = NoValidation
    /\ last_call = NoCall

NextConcurrent ==
    \/ get_sensor_readings_resolve
    \/ get_sensor_readings_loop
    \/ concurrent_store_sensors_measurements

SpecConcurrent == InitConcurrent /\ [][NextConcurrent]_vars

\* C17 (as claimed): also when measurements of the queried sensor are
\* committed between two fetches of a call, the rows the call yields are in
\* ascending timestamp order over all batches, so none is yielded twice.
NoConcurrentMutationHazard == Ascending(Flatten(q_yielded))

\* The property of C17 without a concurrent ingestion: holds in SpecQuery.
AscendingWithoutIngestion == Ascending(Flatten(q_yielded))

\* ------------------------------------------------------------------------
\* Sensors stored by the writer, then read by name
\* ------------------------------------------------------------------------
\* store_sensors_data calls made before the reader is called.
store_sensors_data_before_query ==
    /\ q_pc = "idle"
    /\ store_sensors_data

\* Empty sensor table, measurements of both sensors in the store.
InitNames ==
    /\ sensor_info = {}
    /\ sensor_measurement = MeasurementsAt("A", {1, 2}) \cup MeasurementsAt("B", {2})
    /\ first_name = [u \in UUIDs |-> NONE]
    /\ first_value = [k \in MeasurementKeys |-> << >>]
    /\ InitManagerConstructed
    /\ InitQueryIdle
    /\ InitMainIdle
    /\ InitIngestIdle
    /\ v_last = NoValidation
    /\ last_call = NoCall

NextNames ==
    \/ store_sensors_data_before_query
    \/ get_sensor_readings_resolve
    \/ get_sensor_readings_loop

SpecNames == InitNames /\ [][NextNames]_vars

SensorsNamed(sensor_name) == {x \in sensor_info : x.sensor_name = sensor_name}

\* C19: the writer stores a sensor under the name it was first submitted
\* with, whether or not another sensor has that name; a get_sensor_readings
\* call for a name that two stored sensors have ends at the name resolution
\* with an error, without a fetch, a batch or a log message.
DuplicateNameFailsResolution ==
    /\ \A u \in UUIDs :
          first_name[u] # NONE
              => [sensor_uuid |-> u, sensor_name |-> first_name[u]] \in sensor_info
    /\ (q_pc # "idle" /\ Cardinality(SensorsNamed(q_args.sensor_name)) >= 2)
          => /\ q_pc = "done"
             /\ q_error = "MultipleResultsFound"
             /\ q_sensor = NONE
             /\ q_fetches = << >>
             /\ q_yielded = << >>
             /\ q_log = {}

\* Witness of C19: sensors A and B are stored with one name, both have
\* measurements in the queried range, and the call for the name has failed.
WitnessDuplicateName ==
    /\ sensor_info = { [sensor_uuid |-> "A", sensor_name |-> "temp1"],
                       [sensor_uuid |-> "B", sensor_name |-> "temp1"] }
    /\ q_pc = "done"
    /\ q_args.sensor_name = "temp1"
    /\ q_args.start_timestamp <= 2 /\ 2 <= q_args.end_timestamp
    /\ q_error = "MultipleResultsFound"
    /\ q_yielded = << >>

====
